---- MODULE Spec2Model ----
(***************************************************************************)
(* Model of the polygon zone editor (utils/draw_zone.py) and of the zone   *)
(* loader (utils/__init__.py) of the time_analysis project.                *)
(*                                                                         *)
(* The editor is the event loop of main(): each iteration waits for a key  *)
(* (mouse callbacks are dispatched while waiting), handles the key and     *)
(* redraws.  pc is the position inside that loop.                          *)
(*                                                                         *)
(* The annotation pipeline (app/main.py), the zone loader on arbitrary     *)
(* documents and the path resolver (app/conf/validators.py) are separate   *)
(* programs: each has its own variable and its own specification.          *)
(***************************************************************************)
EXTENDS Integers, Sequences, FiniteSets, TLC

VARIABLES
    POLYGONS,                \* draw_zone.POLYGONS: list of lists of (x, y)
    current_mouse_position,  \* draw_zone.current_mouse_position, None or (x, y)
    pc,                      \* position in main(): "waitKey", "dispatch", "redraw", "done", "crashed"
    key,                     \* local variable key of main()
    pending,                 \* mouse event delivered by the window system, not yet handled
    image,                   \* the image buffer: the cv2.line calls made since it was last reset
    window,                  \* what cv2.imshow last showed
    file,                    \* the target geometry file
    zones,                   \* result of load_zones_config on the target file
    resaved,                 \* result of saving the loaded zones again
    original_image,          \* local variable original_image of main(), None or the frame
    stdout,                  \* what the editor printed
    raised,                  \* the exception that escaped main(), "none" if none did
    annot,                   \* one call of annotate_frame: its arguments and its outcome
    pipe,                    \* the pipeline loop of app/main.py
    loader,                  \* one call of load_zones_config on a document
    resolver                 \* one call of str_to_path

\* the variables of main() around its loop
startVars == <<original_image, stdout, raised>>

\* the variables of the programs other than the editor
auxVars == <<annot, pipe, loader, resolver>>

vars == <<POLYGONS, current_mouse_position, pc, key, pending, image, window,
          file, zones, resaved, original_image, stdout, raised,
          annot, pipe, loader, resolver>>

----------------------------------------------------------------------------
(* Bounds of the model *)

\* largest number of polygons in POLYGONS
MaxPolys == 3
\* largest total number of points in POLYGONS
MaxPoints == 4

\* the pixel positions the mouse can report
Points == {<<0, 1>>, <<1, 0>>}

----------------------------------------------------------------------------
(* Program constants *)

KEY_ENTER == 13
KEY_NEWLINE == 10
KEY_ESCAPE == 27
KEY_QUIT == 113
KEY_SAVE == 115

EVENT_MOUSEMOVE == 0
EVENT_LBUTTONDOWN == 1
\* any event that is neither a move nor a left button press
EVENT_RBUTTONDOWN == 2

\* Python's None (for current_mouse_position and for pending)
None == <<>>

\* what cv2.waitKey(1) can return: -1 when no key was pressed, or a key code
RawKeys == {-1, KEY_NEWLINE, KEY_ENTER, KEY_ESCAPE, KEY_QUIT, KEY_SAVE}

----------------------------------------------------------------------------
(* Drawing *)

\* sv.Color.WHITE
WHITE == [name |-> "WHITE", idx |-> 0]

\* COLORS.by_idx(idx): the palette colour of a polygon index.  The palette is
\* the library's; for the indices of this model (below its length) the
\* colours of different indices are different.
by_idx(idx) == [name |-> "by_idx", idx |-> idx]

\* one call of cv2.line
Line(pt1, pt2, color) == [pt1 |-> pt1, pt2 |-> pt2, color |-> color]

RECURSIVE Flatten(_)
Flatten(seqs) ==
    IF seqs = <<>> THEN <<>> ELSE Head(seqs) \o Flatten(Tail(seqs))

\* the lines redraw() draws for the polygon at (0-based) index idx
redraw_polygon(polys, idx, cursor) ==
    LET polygon == polys[idx + 1]
        n == Len(polygon)
        finalized == idx < Len(polys) - 1
        color == IF finalized THEN by_idx(idx) ELSE WHITE
        edges == IF n > 1
                 THEN [i \in 1..(n - 1) |-> Line(polygon[i], polygon[i + 1], color)]
                      \o (IF finalized
                          THEN <<Line(polygon[n], polygon[1], color)>>
                          ELSE <<>>)
                 ELSE <<>>
        rubber == IF idx = Len(polys) - 1 /\ cursor # None /\ polygon # <<>>
                  THEN <<Line(polygon[n], cursor, color)>>
                  ELSE <<>>
    IN  edges \o rubber

\* redraw(image, original_image): the content of the image after the call
redraw(polys, cursor) ==
    Flatten([i \in 1..Len(polys) |-> redraw_polygon(polys, i - 1, cursor)])

\* redraw_polygons(image): the lines it adds to the image
redraw_polygons(polys) ==
    Flatten([i \in 1..(Len(polys) - 1) |->
        LET polygon == polys[i]
            n == Len(polygon)
            color == by_idx(i - 1)
        IN  IF n > 1
            THEN [j \in 1..(n - 1) |-> Line(polygon[j], polygon[j + 1], color)]
                 \o <<Line(polygon[n], polygon[1], color)>>
            ELSE <<>>])

----------------------------------------------------------------------------
(* Editor operations *)

\* mouse_event with the click appended to the first polygon, not the last
mouse_event_first_polygon(polys, cursor, event, x, y) ==
    IF event = EVENT_MOUSEMOVE
    THEN [POLYGONS |-> polys, current_mouse_position |-> <<x, y>>]
    ELSE IF event = EVENT_LBUTTONDOWN
    THEN [POLYGONS |-> [polys EXCEPT ![1] = Append(@, <<x, y>>)],
          current_mouse_position |-> cursor]
    ELSE [POLYGONS |-> polys, current_mouse_position |-> cursor]

\* mouse_event with the click recording the cursor position as well
mouse_event_click_moves_cursor(polys, cursor, event, x, y) ==
    IF event = EVENT_MOUSEMOVE
    THEN [POLYGONS |-> polys, current_mouse_position |-> <<x, y>>]
    ELSE IF event = EVENT_LBUTTONDOWN
    THEN [POLYGONS |-> [polys EXCEPT ![Len(polys)] = Append(@, <<x, y>>)],
          current_mouse_position |-> <<x, y>>]
    ELSE [POLYGONS |-> polys, current_mouse_position |-> cursor]

\* mouse_event with a pointer move that draws: it appends the position to
\* the last polygon as well
mouse_event_move_draws(polys, cursor, event, x, y) ==
    IF event = EVENT_MOUSEMOVE
    THEN [POLYGONS |-> [polys EXCEPT ![Len(polys)] = Append(@, <<x, y>>)],
          current_mouse_position |-> <<x, y>>]
    ELSE IF event = EVENT_LBUTTONDOWN
    THEN [POLYGONS |-> [polys EXCEPT ![Len(polys)] = Append(@, <<x, y>>)],
          current_mouse_position |-> cursor]
    ELSE [POLYGONS |-> polys, current_mouse_position |-> cursor]

\* mouse_event(event, x, y, flags, param)
mouse_event(polys, cursor, event, x, y) ==
    IF event = EVENT_MOUSEMOVE
    THEN [POLYGONS |-> polys, current_mouse_position |-> <<x, y>>]
    ELSE IF event = EVENT_LBUTTONDOWN
    THEN [POLYGONS |-> [polys EXCEPT ![Len(polys)] = Append(@, <<x, y>>)],
          current_mouse_position |-> cursor]
    ELSE [POLYGONS |-> polys, current_mouse_position |-> cursor]

\* close_and_finalize_polygon starting a new polygon only when the active
\* one has more than 2 points
close_and_finalize_only_closed(polys, img) ==
    LET active == polys[Len(polys)]
        appended == IF Len(active) > 2 THEN Append(polys, <<>>) ELSE polys
        drawn == redraw_polygons(appended)
    IN  [POLYGONS |-> appended, image |-> drawn, window |-> drawn]

\* close_and_finalize_polygon(image, original_image)
close_and_finalize_polygon(polys, img) ==
    LET active == polys[Len(polys)]
        closed == IF Len(active) > 2
                  THEN Append(img, Line(active[Len(active)], active[1], by_idx(0)))
                  ELSE img
        appended == Append(polys, <<>>)
        \* image[:] = original_image.copy() discards what was drawn, closed included
        reset == SubSeq(closed, 1, 0)
        drawn == reset \o redraw_polygons(appended)
    IN  [POLYGONS |-> appended, image |-> drawn, window |-> drawn]

\* the KEY_ESCAPE branch without the global declaration: the cursor
\* position assigned is a local variable
main_escape_keeps_cursor(polys, cursor) ==
    [POLYGONS |-> [polys EXCEPT ![Len(polys)] = <<>>],
     current_mouse_position |-> cursor]

\* the KEY_ESCAPE branch undoing an empty active polygon: it removes it,
\* and the polygon before it is active again
main_escape_removes_empty(polys, cursor) ==
    [POLYGONS |-> IF polys[Len(polys)] = <<>> /\ Len(polys) > 1
                  THEN SubSeq(polys, 1, Len(polys) - 1)
                  ELSE [polys EXCEPT ![Len(polys)] = <<>>],
     current_mouse_position |-> None]

\* the KEY_ESCAPE branch of main()
main_escape(polys, cursor) ==
    [POLYGONS |-> [polys EXCEPT ![Len(polys)] = <<>>],
     current_mouse_position |-> None]

----------------------------------------------------------------------------
(* Python values, as json and numpy see them *)

PyInt(n) == [k |-> "int", v |-> n, items |-> <<>>, shape |-> <<>>]
PyList(items) == [k |-> "list", v |-> 0, items |-> items, shape |-> <<>>]
PyTuple(items) == [k |-> "tuple", v |-> 0, items |-> items, shape |-> <<>>]
\* a numpy array: its shape and its elements in row-major order
NdArray(shape, data) == [k |-> "ndarray", v |-> 0, items |-> data, shape |-> shape]

\* a point (x, y) of POLYGONS
PyPoint(p) == PyTuple([i \in 1..Len(p) |-> PyInt(p[i])])
\* a polygon of POLYGONS
PyPolygon(polygon) == PyList([i \in 1..Len(polygon) |-> PyPoint(polygon[i])])
\* the list POLYGONS itself
PyPolygons(polys) == PyList([i \in 1..Len(polys) |-> PyPolygon(polys[i])])

RECURSIVE Product(_)
Product(dims) == IF dims = <<>> THEN 1 ELSE Head(dims) * Product(Tail(dims))

\* the outcomes of bool(obj).  A list or tuple is true when it is not empty.
\* An array of more than one element raises ValueError; an empty array is
\* False in the numpy releases that only deprecate it and raises ValueError
\* in those that removed it.
py_bool(obj) ==
    IF obj.k = "int" THEN {IF obj.v # 0 THEN "True" ELSE "False"}
    ELSE IF obj.k = "ndarray"
    THEN IF Product(obj.shape) = 0 THEN {"False", "ValueError"}
         ELSE IF Product(obj.shape) = 1
         THEN {IF obj.items[1] # 0 THEN "True" ELSE "False"}
         ELSE {"ValueError"}
    ELSE {IF obj.items # <<>> THEN "True" ELSE "False"}

----------------------------------------------------------------------------
(* JSON text, as a sequence of tokens *)

LBRACKET == [t |-> "[", n |-> 0]
RBRACKET == [t |-> "]", n |-> 0]
COMMA == [t |-> ",", n |-> 0]
Num(n) == [t |-> "num", n |-> n]

\* json.dump(obj, f): the text written to f, and the exception raised if any.
\* The encoder writes chunk by chunk, so what precedes an object it cannot
\* serialize is already written when it raises TypeError.
RECURSIVE iterencode(_)
RECURSIVE iterencode_list(_, _, _)
iterencode(obj) ==
    IF obj.k = "int" THEN [exc |-> "none", text |-> <<Num(obj.v)>>]
    ELSE IF obj.k = "ndarray" THEN [exc |-> "TypeError", text |-> <<>>]
    ELSE IF obj.items = <<>>
    THEN [exc |-> "none", text |-> <<LBRACKET, RBRACKET>>]
    ELSE iterencode_list(obj.items, 1, <<LBRACKET>>)

iterencode_list(items, i, buf) ==
    IF i > Len(items) THEN [exc |-> "none", text |-> Append(buf, RBRACKET)]
    ELSE LET sep == IF i = 1 THEN buf ELSE Append(buf, COMMA)
             chunk == iterencode(items[i])
         IN  IF chunk.exc # "none"
             THEN [exc |-> chunk.exc, text |-> sep \o chunk.text]
             ELSE iterencode_list(items, i + 1, sep \o chunk.text)

json_dump(obj) == iterencode(obj)

\* json.load(f): the value parsed from the text, or JSONDecodeError
RECURSIVE parse_value(_, _)
RECURSIVE parse_items(_, _, _)
parse_value(text, i) ==
    IF i > Len(text) THEN [ok |-> FALSE, obj |-> PyInt(0), next |-> i]
    ELSE IF text[i].t = "num"
    THEN [ok |-> TRUE, obj |-> PyInt(text[i].n), next |-> i + 1]
    ELSE IF text[i] = LBRACKET
    THEN IF i + 1 <= Len(text) /\ text[i + 1] = RBRACKET
         THEN [ok |-> TRUE, obj |-> PyList(<<>>), next |-> i + 2]
         ELSE parse_items(text, i + 1, <<>>)
    ELSE [ok |-> FALSE, obj |-> PyInt(0), next |-> i]

parse_items(text, i, acc) ==
    LET r == parse_value(text, i)
        got == Append(acc, r.obj)
    IN  IF ~r.ok \/ r.next > Len(text)
        THEN [ok |-> FALSE, obj |-> PyInt(0), next |-> r.next]
        ELSE IF text[r.next] = COMMA THEN parse_items(text, r.next + 1, got)
        ELSE IF text[r.next] = RBRACKET
        THEN [ok |-> TRUE, obj |-> PyList(got), next |-> r.next + 1]
        ELSE [ok |-> FALSE, obj |-> PyInt(0), next |-> r.next]

json_load(text) ==
    LET r == parse_value(text, 1)
    IN  IF r.ok /\ r.next = Len(text) + 1
        THEN [exc |-> "none", obj |-> r.obj]
        ELSE [exc |-> "JSONDecodeError", obj |-> PyInt(0)]

----------------------------------------------------------------------------
(* Saving and loading *)

\* save_polygons_to_json dropping the last polygon when it has fewer than 3
\* points
save_strips_degenerate(polygons) ==
    LET n == Len(polygons.items)
        data_to_save == IF Len(polygons.items[n].items) > 2 THEN polygons
                        ELSE PyList(SubSeq(polygons.items, 1, n - 1))
        written == json_dump(data_to_save)
    IN  {[exc |-> written.exc, opened |-> TRUE, text |-> written.text]}

\* save_polygons_to_json writing the list as it is
save_never_strips(polygons) ==
    LET written == json_dump(polygons)
    IN  {[exc |-> written.exc, opened |-> TRUE, text |-> written.text]}

\* save_polygons_to_json(polygons, target_path): the possible outcomes.
\* opened tells whether open(target_path, "w") was reached; text is what the
\* file then holds.
save_polygons_to_json(polygons) ==
    IF polygons.items = <<>>
    THEN {[exc |-> "IndexError", opened |-> FALSE, text |-> <<>>]}
    ELSE LET n == Len(polygons.items)
             result(truth) ==
                 IF truth = "ValueError"
                 THEN [exc |-> "ValueError", opened |-> FALSE, text |-> <<>>]
                 ELSE LET data_to_save ==
                              IF truth = "True" THEN polygons
                              ELSE PyList(SubSeq(polygons.items, 1, n - 1))
                          written == json_dump(data_to_save)
                      IN  [exc |-> written.exc, opened |-> TRUE, text |-> written.text]
         IN  {result(truth) : truth \in py_bool(polygons.items[n])}

\* the dimensions of the array np.array makes of obj; ragged when the nested
\* lists do not have one common shape
RECURSIVE np_shape(_)
np_shape(obj) ==
    IF obj.k = "int" THEN [ok |-> TRUE, dims |-> <<>>]
    ELSE IF obj.items = <<>> THEN [ok |-> TRUE, dims |-> <<0>>]
    ELSE LET subs == [i \in 1..Len(obj.items) |-> np_shape(obj.items[i])]
         IN  IF \A i \in 1..Len(subs) : subs[i].ok /\ subs[i].dims = subs[1].dims
             THEN [ok |-> TRUE, dims |-> <<Len(obj.items)>> \o subs[1].dims]
             ELSE [ok |-> FALSE, dims |-> <<>>]

RECURSIVE np_flat(_)
np_flat(obj) ==
    IF obj.k = "int" THEN <<obj.v>>
    ELSE Flatten([i \in 1..Len(obj.items) |-> np_flat(obj.items[i])])

\* the largest value of np.int32
INT32_MAX == 2147483647

\* np.array(obj, np.int32)
np_array(obj) ==
    LET s == np_shape(obj)
        data == np_flat(obj)
    IN  IF ~s.ok THEN [exc |-> "ValueError", arr |-> NdArray(<<>>, <<>>)]
        ELSE IF \E i \in 1..Len(data) : data[i] < -INT32_MAX - 1 \/ data[i] > INT32_MAX
        THEN [exc |-> "OverflowError", arr |-> NdArray(<<>>, <<>>)]
        ELSE [exc |-> "none", arr |-> NdArray(s.dims, data)]

\* load_zones_config(file_path), on the text of the file
load_zones_config(text) ==
    LET data == json_load(text)
    IN  IF data.exc # "none" THEN [exc |-> data.exc, value |-> <<>>]
        ELSE IF data.obj.k = "int" THEN [exc |-> "TypeError", value |-> <<>>]
        ELSE LET arrays == [i \in 1..Len(data.obj.items) |-> np_array(data.obj.items[i])]
             IN  IF \E i \in 1..Len(arrays) : arrays[i].exc # "none"
                 THEN [exc |-> arrays[CHOOSE i \in 1..Len(arrays) :
                                         /\ arrays[i].exc # "none"
                                         /\ \A j \in 1..(i - 1) : arrays[j].exc = "none"].exc,
                       value |-> <<>>]
                 ELSE [exc |-> "none", value |-> [i \in 1..Len(arrays) |-> arrays[i].arr]]

\* ndarray.tolist() of a loaded zone: its points, row by row
rows(arr) ==
    IF Len(arr.shape) = 2 /\ arr.shape[2] = 2
    THEN [i \in 1..arr.shape[1] |-> <<arr.items[2 * i - 1], arr.items[2 * i]>>]
    ELSE <<>>

----------------------------------------------------------------------------
(* The editor session: main() *)

RECURSIVE TotalPoints(_)
TotalPoints(polys) ==
    IF polys = <<>> THEN 0 ELSE Len(Head(polys)) + TotalPoints(Tail(polys))

NotSaved == [writes |-> 0, text |-> <<>>]
NotLoaded == [loaded |-> FALSE, exc |-> "none", value |-> <<>>]
NotResaved == [done |-> FALSE, exc |-> "none", opened |-> FALSE, text |-> <<>>]

\* a program that is not running
Idle == [pc |-> "idle"]

\* The state when main() is called: POLYGONS = [[]], no cursor, nothing
\* loaded or shown.  key is not assigned yet; it is written before it is
\* read, and starts here as the code of "no key".
EditorInit ==
    /\ POLYGONS = << <<>> >>
    /\ current_mouse_position = None
    /\ pc = "start"
    /\ key = 255
    /\ pending = None
    /\ image = <<>>
    /\ window = <<>>
    /\ file = NotSaved
    /\ zones = NotLoaded
    /\ resaved = NotResaved
    /\ original_image = None
    /\ stdout = <<>>
    /\ raised = "none"

Init ==
    /\ EditorInit
    /\ annot = Idle
    /\ pipe = Idle
    /\ loader = Idle
    /\ resolver = Idle

\* what can be at src_path: nothing, an image, a video with frames, a video
\* container without a frame, a file that is neither
Sources ==
    {[exists |-> FALSE, imread |-> FALSE, video |-> "unopenable"],
     [exists |-> TRUE, imread |-> TRUE, video |-> "unopenable"],
     [exists |-> TRUE, imread |-> FALSE, video |-> "frames"],
     [exists |-> TRUE, imread |-> FALSE, video |-> "no_frames"],
     [exists |-> TRUE, imread |-> FALSE, video |-> "unopenable"]}

\* resolve_source(source_path): the image returned, or the exception raised.
\* sv.get_video_frames_generator raises Exception when the video cannot be
\* opened; next() of a generator that yields no frame raises StopIteration.
resolve_source(source) ==
    IF ~source.exists THEN [exc |-> "none", image |-> None]
    ELSE IF source.imread THEN [exc |-> "none", image |-> <<"frame">>]
    ELSE IF source.video = "frames" THEN [exc |-> "none", image |-> <<"frame">>]
    ELSE IF source.video = "no_frames" THEN [exc |-> "StopIteration", image |-> None]
    ELSE [exc |-> "Exception", image |-> None]

\* main() up to its loop: load the source, show it, register the callback
main_start ==
    /\ pc = "start"
    /\ \E source \in Sources :
          LET r == resolve_source(source)
          IN  IF r.exc # "none"
              THEN /\ raised' = r.exc
                   /\ pc' = "crashed"
                   /\ UNCHANGED <<original_image, stdout>>
              ELSE IF r.image = None
              THEN /\ stdout' = Append(stdout, "Failed to load source image.")
                   /\ pc' = "done"
                   /\ UNCHANGED <<original_image, raised>>
              ELSE /\ original_image' = r.image
                   /\ pc' = "waitKey"
                   /\ UNCHANGED <<stdout, raised>>
    /\ UNCHANGED <<POLYGONS, current_mouse_position, key, pending, image,
                   window, file, zones, resaved>>
    /\ UNCHANGED auxVars

\* The window system delivers a mouse event while main() is in cv2.waitKey.
MouseInput ==
    /\ pc = "waitKey"
    /\ pending = None
    /\ \E event \in {EVENT_MOUSEMOVE, EVENT_LBUTTONDOWN, EVENT_RBUTTONDOWN} :
       \E p \in Points :
          /\ event = EVENT_LBUTTONDOWN => TotalPoints(POLYGONS) < MaxPoints
          /\ pending' = <<event, p[1], p[2]>>
    /\ UNCHANGED <<POLYGONS, current_mouse_position, pc, key, image, window,
                   file, zones, resaved>>
    /\ UNCHANGED <<startVars, auxVars>>

\* The callback registered by cv2.setMouseCallback runs on the event.
MouseCallback ==
    /\ pc = "waitKey"
    /\ pending # None
    /\ LET r == mouse_event(POLYGONS, current_mouse_position,
                            pending[1], pending[2], pending[3])
       IN  /\ POLYGONS' = r.POLYGONS
           /\ current_mouse_position' = r.current_mouse_position
    /\ pending' = None
    /\ UNCHANGED <<pc, key, image, window, file, zones, resaved>>
    /\ UNCHANGED <<startVars, auxVars>>

\* key = cv2.waitKey(1) & 0xFF
main_waitKey ==
    /\ pc = "waitKey"
    /\ pending = None
    /\ \E raw \in RawKeys :
          /\ raw \in {KEY_ENTER, KEY_NEWLINE} => Len(POLYGONS) < MaxPolys
          /\ key' = raw % 256
    /\ pc' = "dispatch"
    /\ UNCHANGED <<POLYGONS, current_mouse_position, pending, image, window,
                   file, zones, resaved>>
    /\ UNCHANGED <<startVars, auxVars>>

\* the KEY_SAVE branch without its break
main_save_no_break ==
    \E r \in save_polygons_to_json(PyPolygons(POLYGONS)) :
       /\ file' = IF r.opened
                  THEN [writes |-> file.writes + 1, text |-> r.text]
                  ELSE file
       /\ pc' = IF r.exc = "none" THEN "redraw" ELSE "crashed"
       /\ stdout' = IF r.exc = "none"
                    THEN Append(stdout, "Polygons saved to dest_path")
                    ELSE stdout
       /\ raised' = r.exc
       /\ UNCHANGED <<POLYGONS, current_mouse_position, image, window,
                      original_image>>

\* the KEY_SAVE branch of main(): save, print, break
main_save ==
    \E r \in save_polygons_to_json(PyPolygons(POLYGONS)) :
       /\ file' = IF r.opened
                  THEN [writes |-> file.writes + 1, text |-> r.text]
                  ELSE file
       /\ pc' = IF r.exc = "none" THEN "done" ELSE "crashed"
       /\ stdout' = IF r.exc = "none"
                    THEN Append(stdout, "Polygons saved to dest_path")
                    ELSE stdout
       /\ raised' = r.exc
       /\ UNCHANGED <<POLYGONS, current_mouse_position, image, window,
                      original_image>>

\* the if / elif chain on key in main()
main_dispatch ==
    /\ pc = "dispatch"
    /\ IF key = KEY_ENTER \/ key = KEY_NEWLINE
       THEN LET r == close_and_finalize_polygon(POLYGONS, image)
            IN  /\ POLYGONS' = r.POLYGONS
                /\ image' = r.image
                /\ window' = r.window
                /\ pc' = "redraw"
                /\ UNCHANGED <<current_mouse_position, file, startVars>>
       ELSE IF key = KEY_ESCAPE
       THEN LET r == main_escape(POLYGONS, current_mouse_position)
            IN  /\ POLYGONS' = r.POLYGONS
                /\ current_mouse_position' = r.current_mouse_position
                /\ pc' = "redraw"
                /\ UNCHANGED <<image, window, file, startVars>>
       ELSE IF key = KEY_SAVE
       THEN main_save
       ELSE /\ pc' = "redraw"
            /\ UNCHANGED <<POLYGONS, current_mouse_position, image, window, file,
                           startVars>>
    /\ UNCHANGED <<key, pending, zones, resaved>>
    /\ UNCHANGED auxVars

\* redraw(image, original_image), then the KEY_QUIT test that ends the loop
main_redraw ==
    /\ pc = "redraw"
    /\ image' = redraw(POLYGONS, current_mouse_position)
    /\ window' = image'
    /\ pc' = IF key = KEY_QUIT THEN "done" ELSE "waitKey"
    /\ UNCHANGED <<POLYGONS, current_mouse_position, key, pending, file,
                   zones, resaved>>
    /\ UNCHANGED <<startVars, auxVars>>

\* A consumer loads the saved geometry file.
Load ==
    /\ pc = "done"
    /\ file.writes > 0
    /\ ~zones.loaded
    /\ LET r == load_zones_config(file.text)
       IN  zones' = [loaded |-> TRUE, exc |-> r.exc, value |-> r.value]
    /\ UNCHANGED <<POLYGONS, current_mouse_position, pc, key, pending, image,
                   window, file, resaved>>
    /\ UNCHANGED <<startVars, auxVars>>

\* The loaded zones are saved again, unedited, to another file.
Resave ==
    /\ zones.loaded
    /\ zones.exc = "none"
    /\ ~resaved.done
    /\ \E r \in save_polygons_to_json(PyList(zones.value)) :
          resaved' = [done |-> TRUE, exc |-> r.exc, opened |-> r.opened,
                      text |-> r.text]
    /\ UNCHANGED <<POLYGONS, current_mouse_position, pc, key, pending, image,
                   window, file, zones>>
    /\ UNCHANGED <<startVars, auxVars>>

Next ==
    \/ main_start
    \/ MouseInput
    \/ MouseCallback
    \/ main_waitKey
    \/ main_dispatch
    \/ main_redraw
    \/ Load
    \/ Resave

Spec == Init /\ [][Next]_vars

----------------------------------------------------------------------------
(* annotate_frame (app/main.py) *)

\* longest list of annotators
MaxMethods == 3

\* the supervision annotators main() constructs
Annotators == {"BoxAnnotator", "LabelAnnotator", "TraceAnnotator", "MaskAnnotator"}

SeqsUpTo(S, n) == UNION {[1..m -> S] : m \in 0..n}

\* the labels argument: None (the default), or a list of strings
LabelsNone == [none |-> TRUE, items |-> <<>>]
LabelList(items) == [none |-> FALSE, items |-> items]
LabelArgs == {LabelsNone, LabelList(<<>>), LabelList(<<"#1 person">>)}

\* the labels keyword of one annotate call: absent, or the value passed
NotPassed == [passed |-> FALSE, value |-> LabelsNone]
Passed(labels) == [passed |-> TRUE, value |-> labels]

\* method.annotate(scene, ...): the annotator draws on the scene it is given
\* and returns that scene
annotate(method, scene, arg) == Append(scene, [by |-> method, labels |-> arg])

\* the for loop of annotate_frame.  mem holds the caller's array and the
\* copy; ref names the one the local variable frame refers to.
RECURSIVE annotate_loop(_, _, _, _, _, _)
annotate_loop(methods, i, mem, ref, labels, calls) ==
    IF i > Len(methods) THEN [mem |-> mem, calls |-> calls]
    ELSE LET arg == IF methods[i] = "LabelAnnotator" THEN Passed(labels)
                    ELSE NotPassed
             out == annotate(methods[i], mem[ref], arg)
             call == [method |-> methods[i], index |-> i, scene |-> mem[ref],
                      labels |-> arg, out |-> out]
         IN  annotate_loop(methods, i + 1, [mem EXCEPT ![ref] = out], ref,
                           labels, Append(calls, call))

\* annotate_frame without frame = frame.copy(): the passes draw on the
\* caller's array
annotate_frame_in_place(frame, methods, labels) ==
    LET mem == [caller |-> frame, local |-> frame]
        la_found == \E i \in 1..Len(methods) : methods[i] = "LabelAnnotator"
    IN  IF (labels.none /\ la_found)
           \/ (~labels.none /\ labels.items # <<>> /\ ~la_found)
        THEN [exc |-> "ValueError", caller |-> frame, returned |-> <<>>,
              calls |-> <<>>]
        ELSE LET r == annotate_loop(methods, 1, mem, "caller", labels, <<>>)
             IN  [exc |-> "none", caller |-> r.mem.caller,
                  returned |-> r.mem.caller, calls |-> r.calls]

\* annotate_frame(frame, detections=, methods=, labels=): the exception
\* raised, the caller's array after the call, the array returned and the
\* annotate calls made
annotate_frame(frame, methods, labels) ==
    LET mem == [caller |-> frame, local |-> frame]
        la_found == \E i \in 1..Len(methods) : methods[i] = "LabelAnnotator"
    IN  IF (labels.none /\ la_found)
           \/ (~labels.none /\ labels.items # <<>> /\ ~la_found)
        THEN [exc |-> "ValueError", caller |-> mem.caller, returned |-> <<>>,
              calls |-> <<>>]
        ELSE LET r == annotate_loop(methods, 1, mem, "local", labels, <<>>)
             IN  [exc |-> "none", caller |-> r.mem.caller,
                  returned |-> r.mem.local, calls |-> r.calls]

\* the frame handed to annotate_frame
InputFrame == <<"frame">>

AnnotateInit ==
    /\ EditorInit
    /\ pipe = Idle
    /\ loader = Idle
    /\ resolver = Idle
    /\ annot \in {[pc |-> "call", frame |-> InputFrame, methods |-> methods,
                   labels |-> labels,
                   result |-> [exc |-> "none", caller |-> InputFrame,
                               returned |-> <<>>, calls |-> <<>>]] :
                     methods \in SeqsUpTo(Annotators, MaxMethods),
                     labels \in LabelArgs}

AnnotateCall ==
    /\ annot.pc = "call"
    /\ LET r == annotate_frame(annot.frame, annot.methods, annot.labels)
       IN  annot' = [annot EXCEPT !.pc = IF r.exc = "none" THEN "returned"
                                         ELSE "raised",
                                  !.result = r]
    /\ UNCHANGED <<POLYGONS, current_mouse_position, pc, key, pending, image,
                   window, file, zones, resaved, startVars, pipe, loader,
                   resolver>>

AnnotateNext == AnnotateCall

AnnotateSpec == AnnotateInit /\ [][AnnotateNext]_vars

----------------------------------------------------------------------------
(* The pipeline loop: main() of app/main.py *)

\* largest number of frames of the video
MaxFrames == 3

\* the class of interest, detections.class_id == 0
TARGET_CLASS == 0
\* ord("q")
ORD_Q == 113

\* what the model detects in one frame: the class ids of its detections
FrameDetections == {<<>>, <<0>>, <<1>>, <<0, 1>>}

\* detections[detections.class_id == 0]
RECURSIVE filter_class(_)
filter_class(detections) ==
    IF detections = <<>> THEN <<>>
    ELSE (IF Head(detections) = TARGET_CLASS THEN <<Head(detections)>> ELSE <<>>)
         \o filter_class(Tail(detections))

\* tracker.update_with_detections(detections).  The tracker is the
\* library's; here it returns every detection it is handed, with the
\* tracker id of its position.
update_with_detections(detections) ==
    [i \in 1..Len(detections) |-> [class_id |-> detections[i], tracker_id |-> i]]

\* process_frame(model, frame, methods): the outcome of its annotate_frame
process_frame(frame, methods) ==
    LET tracked == update_with_detections(filter_class(frame.detections))
        labels == LabelList([i \in 1..Len(tracked) |->
                     <<"#", tracked[i].tracker_id, "name", tracked[i].class_id>>])
    IN  annotate_frame(<<frame>>, methods, labels)

\* methods = [box_annotator, label_annotator]
PipelineMethods == <<"BoxAnnotator", "LabelAnnotator">>

PipelineInit ==
    /\ EditorInit
    /\ annot = Idle
    /\ loader = Idle
    /\ resolver = Idle
    /\ pipe \in {[pc |-> "for", source |-> source, pos |-> 0, frame |-> <<>>,
                  shown |-> <<>>, polls |-> <<>>, quit |-> FALSE,
                  raised |-> "none"] :
                    source \in SeqsUpTo(FrameDetections, MaxFrames)}

PipeUnchanged ==
    UNCHANGED <<POLYGONS, current_mouse_position, pc, key, pending, image,
                window, file, zones, resaved, startVars, annot, loader,
                resolver>>

\* for frame in frame_generator: the next frame, or the end of the loop
pipe_for ==
    /\ pipe.pc = "for"
    /\ pipe' = IF pipe.pos < Len(pipe.source)
               THEN [pipe EXCEPT !.pc = "process", !.pos = pipe.pos + 1,
                                 !.frame = <<[index |-> pipe.pos + 1,
                                              detections |-> pipe.source[pipe.pos + 1]]>>]
               ELSE [pipe EXCEPT !.pc = "done"]
    /\ PipeUnchanged

\* frame = process_frame(model, frame, methods)
pipe_process ==
    /\ pipe.pc = "process"
    /\ LET r == process_frame(pipe.frame[1], PipelineMethods)
       IN  pipe' = IF r.exc = "none"
                   THEN [pipe EXCEPT !.pc = "show", !.frame = r.returned]
                   ELSE [pipe EXCEPT !.pc = "crashed", !.raised = r.exc]
    /\ PipeUnchanged

\* frame = cv2.resize(frame, ...); cv2.imshow("Video", frame)
pipe_show ==
    /\ pipe.pc = "show"
    /\ LET resized == Append(pipe.frame, "resized")
       IN  pipe' = [pipe EXCEPT !.pc = "poll",
                                !.frame = resized,
                                !.shown = Append(pipe.shown, resized)]
    /\ PipeUnchanged

\* the poll without its break
pipe_poll_no_break ==
    /\ pipe.pc = "poll"
    /\ \E raw \in {-1, ORD_Q} :
          pipe' = [pipe EXCEPT !.pc = "for",
                               !.polls = Append(pipe.polls, pipe.pos),
                               !.quit = (raw % 256 = ORD_Q)]
    /\ PipeUnchanged

\* if cv2.waitKey(1) & 0xFF == ord("q"): break
pipe_poll ==
    /\ pipe.pc = "poll"
    /\ \E raw \in {-1, ORD_Q} :
          pipe' = [pipe EXCEPT !.pc = IF raw % 256 = ORD_Q THEN "done" ELSE "for",
                               !.polls = Append(pipe.polls, pipe.pos),
                               !.quit = (raw % 256 = ORD_Q)]
    /\ PipeUnchanged

PipelineNext ==
    \/ pipe_for
    \/ pipe_process
    \/ pipe_show
    \/ pipe_poll

\* The loop is straight-line code around a bounded wait: a step that can be
\* taken is taken.
PipelineSpec ==
    PipelineInit /\ [][PipelineNext]_vars /\ WF_vars(PipelineNext)

----------------------------------------------------------------------------
(* load_zones_config on arbitrary documents *)

\* largest number of elements of the document
MaxZones == 1
\* largest number of elements of one element of the document
MaxZonePoints == 2

\* what can stand where a point is expected: a number, or an array of up to
\* three numbers
PointValues ==
    {PyInt(1)} \cup {PyList(items) : items \in SeqsUpTo({PyInt(1)}, 3)}

\* what can stand where a polygon is expected
PolygonValues ==
    {PyInt(1)} \cup {PyList(items) : items \in SeqsUpTo(PointValues, MaxZonePoints)}

\* the JSON documents
Documents ==
    {PyInt(1)} \cup {PyList(items) : items \in SeqsUpTo(PolygonValues, MaxZones)}

\* a text cut short: its last token is missing
Truncated(text) == SubSeq(text, 1, Len(text) - 1)

LoadInit ==
    /\ EditorInit
    /\ annot = Idle
    /\ pipe = Idle
    /\ resolver = Idle
    /\ loader \in {[pc |-> "call", doc |-> doc, intact |-> intact,
                    text |-> IF intact THEN json_dump(doc).text
                             ELSE Truncated(json_dump(doc).text),
                    result |-> [exc |-> "none", value |-> <<>>]] :
                      doc \in Documents, intact \in BOOLEAN}

LoadDocument ==
    /\ loader.pc = "call"
    /\ LET r == load_zones_config(loader.text)
       IN  loader' = [loader EXCEPT !.pc = IF r.exc = "none" THEN "returned"
                                           ELSE "raised",
                                    !.result = r]
    /\ UNCHANGED <<POLYGONS, current_mouse_position, pc, key, pending, image,
                   window, file, zones, resaved, startVars, annot, pipe,
                   resolver>>

LoadNext == LoadDocument

LoadSpec == LoadInit /\ [][LoadNext]_vars

----------------------------------------------------------------------------
(* str_to_path (app/conf/validators.py).  A string is the sequence of its  *)
(* characters.                                                             *)

\* largest number of pieces an input string is made of
MaxPieces == 5

HTTP == <<"h", "t", "t", "p">>

\* the pieces input strings are made of; ":" stands for the characters that
\* are outside the class [\w\s.-] and are not "/"
Pieces == {HTTP, <<"/">>, <<".">>, <<"a">>, <<":">>}

InputStrings == {Flatten(pieces) : pieces \in SeqsUpTo(Pieces, MaxPieces)}

\* value.startswith(prefix)
startswith(value, prefix) ==
    Len(value) >= Len(prefix) /\ SubSeq(value, 1, Len(prefix)) = prefix

\* \w, among the characters of the input strings
WordChars == {"a", "h", "t", "p"}
\* [\w\s.-], among the characters of the input strings
NameChars == WordChars \cup {".", "-", " "}

\* the bounds of the quantifiers {1,255} and {1,10} of FILENAME_PATTERN
NAME_MAX == 255
EXT_MAX == 10

\* re.compile(FILENAME_PATTERN).match(value): the pattern is anchored at the
\* start of the value only, so it matches when some prefix of the value is
\* 1 to 255 name characters, a dot and 1 to 10 word characters
pattern_match(value) ==
    \E i \in 1..NAME_MAX : \E e \in 1..EXT_MAX :
        /\ i + 1 + e <= Len(value)
        /\ \A j \in 1..i : value[j] \in NameChars
        /\ value[i + 1] = "."
        /\ \A j \in (i + 2)..(i + 1 + e) : value[j] \in WordChars

\* validate_value without its raise: the value falls through
validate_value_no_raise(value) == [exc |-> "none", value |-> value]

\* StrPathValidation(value=value).value
validate_value(value) ==
    IF startswith(value, HTTP) \/ pattern_match(value)
    THEN [exc |-> "none", value |-> value]
    ELSE IF \E item \in {<<".", "/">>, <<".", ".", "/">>, <<"/">>} :
               startswith(value, item)
    THEN [exc |-> "none", value |-> value]
    ELSE [exc |-> "ValidationError", value |-> value]

\* the components between the slashes of a string
RECURSIVE split_slash(_, _, _)
split_slash(str, i, cur) ==
    IF i > Len(str) THEN <<cur>>
    ELSE IF str[i] = "/" THEN <<cur>> \o split_slash(str, i + 1, <<>>)
    ELSE split_slash(str, i + 1, Append(cur, str[i]))

IsName(component) == component # <<>> /\ component # <<".">>

\* pathlib.Path(str) on POSIX: the root is "/" (or "//" for exactly two
\* leading slashes), empty and "." components are dropped
Path(str) ==
    [root |-> IF startswith(str, <<"/", "/">>) /\ ~startswith(str, <<"/", "/", "/">>)
              THEN <<"/", "/">>
              ELSE IF startswith(str, <<"/">>) THEN <<"/">> ELSE <<>>,
     parts |-> SelectSeq(split_slash(str, 1, <<>>), IsName)]

\* no path
NoPath == [root |-> <<"none">>, parts |-> <<>>]

\* Path(a, b): an absolute b replaces a
JoinPath(a, b) ==
    IF b.root # <<>> THEN b ELSE [root |-> a.root, parts |-> a.parts \o b.parts]

\* Path.cwd()
Cwd == [root |-> <<"/">>, parts |-> << <<"c", "w", "d">> >>]
DATA == <<"d", "a", "t", "a">>

\* the ".." components taken out, each with the component before it
RECURSIVE collapse(_, _)
collapse(parts, acc) ==
    IF parts = <<>> THEN acc
    ELSE IF Head(parts) = <<".", ".">>
    THEN collapse(Tail(parts), SubSeq(acc, 1, Len(acc) - 1))
    ELSE collapse(Tail(parts), Append(acc, Head(parts)))

\* path.resolve(), where no component is a symbolic link
resolve(path) ==
    LET abs == JoinPath(Cwd, path)
    IN  [root |-> abs.root, parts |-> collapse(abs.parts, <<>>)]

\* path.relative_to("/")
relative_to_root(path) ==
    IF path.root = <<"/">>
    THEN [exc |-> "none", path |-> [root |-> <<>>, parts |-> path.parts]]
    ELSE [exc |-> "ValueError", path |-> NoPath]

\* str(path)
RECURSIVE join_slash(_)
join_slash(parts) ==
    IF parts = <<>> THEN <<>>
    ELSE IF Len(parts) = 1 THEN Head(parts)
    ELSE Head(parts) \o <<"/">> \o join_slash(Tail(parts))

PathStr(path) ==
    IF path.root = <<>> /\ path.parts = <<>> THEN <<".">>
    ELSE path.root \o join_slash(path.parts)

\* the body of str_to_path with base_path = Path.cwd(), without "data"
str_to_path_body_no_data(value) ==
    LET checked == validate_value(value)
        path == Path(value)
    IN  IF checked.exc # "none"
        THEN [exc |-> checked.exc, branch |-> "none", str |-> <<>>, path |-> NoPath]
        ELSE IF startswith(value, HTTP)
        THEN [exc |-> "none", branch |-> "http", str |-> value, path |-> NoPath]
        ELSE IF startswith(value, <<".", "/">>) \/ startswith(value, <<".", ".", "/">>)
        THEN [exc |-> "none", branch |-> "relative", str |-> <<>>, path |-> resolve(path)]
        ELSE IF startswith(value, <<"/">>)
        THEN LET rel == relative_to_root(path)
             IN  [exc |-> rel.exc, branch |-> "rooted", str |-> <<>>,
                  path |-> IF rel.exc = "none" THEN JoinPath(Cwd, rel.path)
                           ELSE NoPath]
        ELSE [exc |-> "none", branch |-> "else", str |-> <<>>,
              path |-> JoinPath(Cwd, Path(value))]

\* the body of str_to_path on a string: the exception raised, the branch
\* that returned, and the string or the path it returned
str_to_path_body(value) ==
    LET checked == validate_value(value)
        base_path == JoinPath(Cwd, [root |-> <<>>, parts |-> <<DATA>>])
        path == Path(value)
    IN  IF checked.exc # "none"
        THEN [exc |-> checked.exc, branch |-> "none", str |-> <<>>, path |-> NoPath]
        ELSE IF startswith(value, HTTP)
        THEN [exc |-> "none", branch |-> "http", str |-> value, path |-> NoPath]
        ELSE IF startswith(value, <<".", "/">>) \/ startswith(value, <<".", ".", "/">>)
        THEN [exc |-> "none", branch |-> "relative", str |-> <<>>, path |-> resolve(path)]
        ELSE IF startswith(value, <<"/">>)
        THEN LET rel == relative_to_root(path)
             IN  [exc |-> rel.exc, branch |-> "rooted", str |-> <<>>,
                  path |-> IF rel.exc = "none" THEN JoinPath(base_path, rel.path)
                           ELSE NoPath]
        ELSE [exc |-> "none", branch |-> "else", str |-> <<>>,
              path |-> JoinPath(base_path, Path(value))]

\* str_to_path(value) as decorated with validate_call(validate_return=True):
\* the value returned by the body is validated as a Path, and a string is
\* converted to the Path of that string
str_to_path(value) ==
    LET r == str_to_path_body(value)
    IN  IF r.exc # "none" THEN [exc |-> r.exc, branch |-> r.branch, ret |-> NoPath]
        ELSE IF r.branch = "http"
        THEN [exc |-> "none", branch |-> r.branch, ret |-> Path(r.str)]
        ELSE [exc |-> "none", branch |-> r.branch, ret |-> r.path]

ResolverInit ==
    /\ EditorInit
    /\ annot = Idle
    /\ pipe = Idle
    /\ loader = Idle
    /\ resolver \in {[pc |-> "call", value |-> value,
                      result |-> [exc |-> "none", branch |-> "none", ret |-> NoPath]] :
                        value \in InputStrings}

ResolverCall ==
    /\ resolver.pc = "call"
    /\ LET r == str_to_path(resolver.value)
       IN  resolver' = [resolver EXCEPT !.pc = IF r.exc = "none" THEN "returned"
                                               ELSE "raised",
                                        !.result = r]
    /\ UNCHANGED <<POLYGONS, current_mouse_position, pc, key, pending, image,
                   window, file, zones, resaved, startVars, annot, pipe,
                   loader>>

ResolverNext == ResolverCall

ResolverSpec == ResolverInit /\ [][ResolverNext]_vars

----------------------------------------------------------------------------
(* Properties *)

Active(polys) == polys[Len(polys)]
AllButLast(polys) == SubSeq(polys, 1, Len(polys) - 1)

\* the polygons a parsed geometry document holds, as lists of lists of numbers
PointsOf(obj) ==
    [i \in 1..Len(obj.items) |->
        [j \in 1..Len(obj.items[i].items) |->
            [c \in 1..Len(obj.items[i].items[j].items) |->
                obj.items[i].items[j].items[c].v]]]

WhiteLines(img) == {n \in DOMAIN img : img[n].color = WHITE}
LinesOf(img, idx) == {n \in DOMAIN img : img[n].color = by_idx(idx)}

EditorVars == <<POLYGONS, current_mouse_position, pc, key, pending, image,
                window, file>>

\* C12: when main() got no image from the source, it printed the message
\* and returned: no exception escaped, the loop was never entered and
\* nothing was written.
SourceUnavailableExitsCleanly ==
    (pc # "start" /\ original_image = None) =>
        /\ pc = "done"
        /\ raised = "none"
        /\ stdout = <<"Failed to load source image.">>
        /\ key = 255
        /\ file.writes = 0

\* C1: the Save step writes the target file once, holding the whole Zone Set
\* when the active polygon has at least one point and all but the active
\* polygon when it is empty, and ends the session; once the session has
\* ended nothing of the editor changes any more.
SavePersistsZoneSet ==
    [][/\ (pc = "dispatch" /\ key = KEY_SAVE) =>
            /\ pc' = "done"
            /\ file'.writes = file.writes + 1
            /\ json_load(file'.text).exc = "none"
            /\ PointsOf(json_load(file'.text).obj) =
                  IF Len(Active(POLYGONS)) >= 1 THEN POLYGONS
                  ELSE AllButLast(POLYGONS)
            /\ POLYGONS' = POLYGONS
       /\ pc = "done" => UNCHANGED EditorVars]_vars

\* a saved session whose active polygon had a single point, after a
\* finalized polygon
SavePersistsZoneSetWitness ==
    /\ pc = "done"
    /\ file.writes = 1
    /\ Len(POLYGONS) = 2
    /\ Len(POLYGONS[1]) = 3
    /\ Len(POLYGONS[2]) = 1
    /\ PointsOf(json_load(file.text).obj) = POLYGONS

\* C2: a Save in a session in which no point was drawn anywhere persists an
\* empty array.
SaveWithoutPointsIsEmptyArray ==
    (pc = "done" /\ file.writes > 0 /\ TotalPoints(POLYGONS) = 0)
        => file.text = <<LBRACKET, RBRACKET>>

\* C3: the Zone Set is never empty, and a step changes the points of no
\* polygon but the last one: the last polygon is the one active polygon, the
\* polygons before it are finalized.
OneActivePolygonLast ==
    [][/\ Len(POLYGONS) >= 1
       /\ Len(POLYGONS') >= 1
       /\ \A i \in 1..(Len(POLYGONS) - 1) :
             i <= Len(POLYGONS') /\ POLYGONS'[i] = POLYGONS[i]]_vars

\* two finalized polygons with points, and an active polygon with points
OneActivePolygonLastWitness ==
    /\ Len(POLYGONS) = 3
    /\ POLYGONS[1] # <<>>
    /\ POLYGONS[2] # <<>>
    /\ POLYGONS[3] # <<>>

\* C4: the Cancel step empties the last polygon and clears the cursor; the
\* number of polygons and every polygon before the last are unchanged.
CancelClearsActiveOnly ==
    [][(pc = "dispatch" /\ key = KEY_ESCAPE) =>
          /\ Len(POLYGONS') = Len(POLYGONS)
          /\ Active(POLYGONS') = <<>>
          /\ current_mouse_position' = None
          /\ \A i \in 1..(Len(POLYGONS) - 1) : POLYGONS'[i] = POLYGONS[i]]_vars

\* just after a Cancel: the window still shows the lines of the active
\* polygon that was cancelled, and a finalized polygon kept its points
CancelClearsActiveOnlyWitness ==
    /\ pc = "redraw"
    /\ key = KEY_ESCAPE
    /\ Len(POLYGONS) >= 2
    /\ Len(POLYGONS[1]) >= 2
    /\ WhiteLines(window) # {}
    /\ Active(POLYGONS) = <<>>
    /\ current_mouse_position = None

\* C5: the Finalize step appends one empty polygon, which is then the last,
\* and leaves every polygon that was there, the previously active one
\* included, at its index with its points.
FinalizeAppendsEmpty ==
    [][(pc = "dispatch" /\ (key = KEY_ENTER \/ key = KEY_NEWLINE)) =>
          /\ Len(POLYGONS') = Len(POLYGONS) + 1
          /\ Active(POLYGONS') = <<>>
          /\ \A i \in 1..Len(POLYGONS) : POLYGONS'[i] = POLYGONS[i]]_vars

\* just after a Finalize of an empty active polygon that followed a
\* Finalize of a polygon of two points
FinalizeAppendsEmptyWitness ==
    /\ pc = "redraw"
    /\ key \in {KEY_ENTER, KEY_NEWLINE}
    /\ Len(POLYGONS) = 3
    /\ Len(POLYGONS[1]) = 2
    /\ POLYGONS[2] = <<>>
    /\ POLYGONS[3] = <<>>

\* C6: for a finalized polygon of exactly two points the window shows no
\* closing edge: of that polygon it shows the one edge between its two
\* points and nothing more.
TwoPointPolygonStaysOpen ==
    \A i \in 1..(Len(POLYGONS) - 1) :
        Len(POLYGONS[i]) = 2 => Cardinality(LinesOf(window, i - 1)) <= 1

\* C7: when the saved Zone Set ended in an empty active polygon, the loaded
\* zones are exactly the finalized polygons, in order, with their points in
\* order.
SaveLoadRoundTrip ==
    (zones.loaded /\ Active(POLYGONS) = <<>>) =>
        /\ zones.exc = "none"
        /\ Len(zones.value) = Len(POLYGONS) - 1
        /\ \A i \in 1..(Len(POLYGONS) - 1) : rows(zones.value[i]) = POLYGONS[i]

\* one finalized polygon of four points and an empty active polygon, saved
\* and loaded
SaveLoadRoundTripWitness ==
    /\ zones.loaded
    /\ Len(POLYGONS) = 2
    /\ Len(POLYGONS[1]) = 4
    /\ POLYGONS[2] = <<>>
    /\ Len(zones.value) = 1

\* C8: saving the loaded zones again succeeds and writes the text of the
\* file that was loaded.
ResaveIsIdentity ==
    resaved.done => (resaved.exc = "none" /\ resaved.text = file.text)

\* C9: the target file is written only by the Save step, at most once, and a
\* session that ended by Quit has not written it.
QuitDoesNotPersist ==
    [][/\ file' # file => (pc = "dispatch" /\ key = KEY_SAVE /\ file.writes = 0)
       /\ (pc' = "done" /\ key' = KEY_QUIT) => file'.writes = 0]_vars

\* a session ended by Quit after points were drawn and a polygon finalized
QuitDoesNotPersistWitness ==
    /\ pc = "done"
    /\ key = KEY_QUIT
    /\ Len(POLYGONS) >= 2
    /\ TotalPoints(POLYGONS) >= 3
    /\ file.writes = 0

\* C10: the callback on a left button press at (x, y) appends (x, y) to the
\* last polygon; the number of polygons, the other polygons, the earlier
\* points of the last polygon and the cursor position are unchanged.
ClickAppendsPoint ==
    [][(pending # None /\ pending' = None /\ pending[1] = EVENT_LBUTTONDOWN) =>
          LET n == Len(POLYGONS)
              m == Len(POLYGONS[n])
          IN  /\ Len(POLYGONS') = n
              /\ \A i \in 1..(n - 1) : POLYGONS'[i] = POLYGONS[i]
              /\ Len(POLYGONS'[n]) = m + 1
              /\ POLYGONS'[n][m + 1] = <<pending[2], pending[3]>>
              /\ SubSeq(POLYGONS'[n], 1, m) = POLYGONS[n]
              /\ current_mouse_position' = current_mouse_position]_vars

\* clicks were handled since the last redraw: the active polygon has two
\* points more than the window shows, next to a finalized polygon and with a
\* cursor position set
ClickAppendsPointWitness ==
    /\ pc = "waitKey"
    /\ pending = None
    /\ Len(POLYGONS) = 2
    /\ Len(POLYGONS[1]) = 2
    /\ Len(POLYGONS[2]) = 2
    /\ current_mouse_position # None
    /\ WhiteLines(window) = {}

\* C11: the callback on a pointer move to (x, y) sets the cursor position to
\* (x, y) and leaves the Zone Set as it is; and what a Save writes is
\* decided by the Zone Set alone, whatever the cursor position.
MoveSetsCursorOnly ==
    [][/\ (pending # None /\ pending' = None /\ pending[1] = EVENT_MOUSEMOVE) =>
            /\ current_mouse_position' = <<pending[2], pending[3]>>
            /\ POLYGONS' = POLYGONS
            /\ file' = file
       /\ (pc = "dispatch" /\ key = KEY_SAVE) =>
            PointsOf(json_load(file'.text).obj) \in {POLYGONS, AllButLast(POLYGONS)}]_vars

\* the pointer moved since the last redraw: the window shows the transient
\* segment from the single point of the active polygon to another position
\* than the cursor's
MoveSetsCursorOnlyWitness ==
    /\ pc = "waitKey"
    /\ pending = None
    /\ Len(Active(POLYGONS)) = 1
    /\ current_mouse_position # None
    /\ \E n \in WhiteLines(window) :
          /\ window[n].pt1 = Active(POLYGONS)[1]
          /\ window[n].pt2 # current_mouse_position

\* C20: no step removes a polygon or changes a polygon below the last
\* index, and the finalized polygons are the first polygons of the saved
\* file.
FinalizedPolygonsAreKept ==
    [][/\ Len(POLYGONS') >= Len(POLYGONS)
       /\ SubSeq(POLYGONS', 1, Len(POLYGONS) - 1) = AllButLast(POLYGONS)
       /\ (pc = "dispatch" /\ key = KEY_SAVE) =>
            LET saved == PointsOf(json_load(file'.text).obj)
            IN  /\ Len(saved) >= Len(POLYGONS) - 1
                /\ SubSeq(saved, 1, Len(POLYGONS) - 1) = AllButLast(POLYGONS)]_vars

\* a saved session with two finalized polygons that hold points, after a
\* Cancel of the active polygon
FinalizedPolygonsAreKeptWitness ==
    /\ pc = "done"
    /\ file.writes = 1
    /\ Len(POLYGONS) = 3
    /\ Len(POLYGONS[1]) = 2
    /\ Len(POLYGONS[2]) = 2
    /\ current_mouse_position = None
    /\ PointsOf(json_load(file.text).obj) = AllButLast(POLYGONS)

\* whether the list of annotators holds a label-requiring pass
HasLabelPass(methods) ==
    \E i \in 1..Len(methods) : methods[i] = "LabelAnnotator"

\* C13: when a label-requiring pass is in the list and no label list is
\* given, or a label list is given and no label-requiring pass is in the
\* list, annotate_frame raises and no pass has been applied.
LabelMismatchRaises ==
    (annot.pc \in {"returned", "raised"}
     /\ \/ (HasLabelPass(annot.methods) /\ annot.labels.none)
        \/ (~annot.labels.none /\ ~HasLabelPass(annot.methods)))
        => /\ annot.pc = "raised"
           /\ annot.result.exc = "ValueError"
           /\ annot.result.calls = <<>>
           /\ annot.result.caller = annot.frame

\* C14: when annotate_frame returns, it has called every pass of the list
\* once, in list order, the first on a copy of the input frame and each
\* other on the frame the pass before it returned; the label list went to
\* the label-requiring passes only; the frame returned is the one the last
\* pass returned, and the caller's frame is as it was.
PassesAppliedInOrder ==
    annot.pc = "returned" =>
        LET calls == annot.result.calls
            n == Len(annot.methods)
        IN  /\ Len(calls) = n
            /\ \A i \in 1..n :
                  /\ calls[i].method = annot.methods[i]
                  /\ calls[i].scene = IF i = 1 THEN annot.frame
                                      ELSE calls[i - 1].out
                  /\ calls[i].labels =
                        IF annot.methods[i] = "LabelAnnotator"
                        THEN Passed(annot.labels) ELSE NotPassed
            /\ annot.result.returned = IF n = 0 THEN annot.frame
                                       ELSE calls[n].out
            /\ annot.result.caller = annot.frame

\* a call with three passes, the label pass in the middle, that returned
PassesAppliedInOrderWitness ==
    /\ annot.pc = "returned"
    /\ annot.methods = <<"BoxAnnotator", "LabelAnnotator", "TraceAnnotator">>
    /\ annot.labels = LabelList(<<"#1 person">>)
    /\ Len(annot.result.returned) = 4

\* the frames shown so far are the first frames of the source, in order,
\* each once; the quit signal was polled once after each of them, except
\* that the last one shown may still wait for its poll; after a poll that
\* reported quit the loop is over and nothing more was processed or shown
PipelineOrder ==
    /\ Len(pipe.shown) <= Len(pipe.source)
    /\ \A i \in 1..Len(pipe.shown) :
          /\ pipe.shown[i][1].index = i
          /\ pipe.shown[i][1].detections = pipe.source[i]
    /\ pipe.polls = [i \in 1..Len(pipe.polls) |-> i]
    /\ Len(pipe.polls) = IF pipe.pc = "poll" THEN Len(pipe.shown) - 1
                         ELSE Len(pipe.shown)
    /\ pipe.pos = IF pipe.pc \in {"process", "show"} THEN Len(pipe.shown) + 1
                  ELSE Len(pipe.shown)
    /\ pipe.quit => (pipe.pc = "done" /\ pipe.pos = Len(pipe.polls))
    /\ pipe.pc = "done" => (pipe.quit \/ pipe.pos = Len(pipe.source))
    /\ pipe.pc # "crashed"

\* C15: the frames are processed and shown one at a time in source order,
\* with one poll after each, nothing after a poll that reported quit; and
\* the loop ends.
PipelineTerminates ==
    []PipelineOrder /\ <>(pipe.pc = "done")

\* a run over three frames ended by the quit signal after the second
PipelineTerminatesWitness ==
    /\ pipe.pc = "done"
    /\ pipe.quit
    /\ Len(pipe.source) = 3
    /\ Len(pipe.shown) = 2
    /\ pipe.polls = <<1, 2>>

\* a JSON array of arrays of 2-element numeric arrays
WellFormedGeometry(doc) ==
    /\ doc.k = "list"
    /\ \A i \in 1..Len(doc.items) :
          /\ doc.items[i].k = "list"
          /\ \A j \in 1..Len(doc.items[i].items) :
                /\ doc.items[i].items[j].k = "list"
                /\ Len(doc.items[i].items[j].items) = 2
                /\ \A c \in 1..2 : doc.items[i].items[j].items[c].k = "int"

\* C16: load_zones_config raises for every document that is not a JSON
\* array of arrays of 2-element numeric arrays, and for every document that
\* is one it returns its polygons in file order, whatever their number and
\* their numbers of points.
LoadRejectsMalformed ==
    loader.pc \in {"returned", "raised"} =>
        IF loader.intact /\ WellFormedGeometry(loader.doc)
        THEN /\ loader.pc = "returned"
             /\ Len(loader.result.value) = Len(loader.doc.items)
             /\ \A i \in 1..Len(loader.doc.items) :
                   rows(loader.result.value[i]) =
                      [j \in 1..Len(loader.doc.items[i].items) |->
                          <<loader.doc.items[i].items[j].items[1].v,
                            loader.doc.items[i].items[j].items[2].v>>]
        ELSE loader.pc = "raised"

ResolverDone == resolver.pc \in {"returned", "raised"}

\* C17: for an input that starts with http, str_to_path returns the input:
\* what it returns reads, as a string, exactly as the input.
HttpReturnedUnchanged ==
    (ResolverDone /\ startswith(resolver.value, HTTP)) =>
        /\ resolver.pc = "returned"
        /\ PathStr(resolver.result.ret) = resolver.value

\* the path <cwd>/data/<input>
UnderData(value) == Path(PathStr(Cwd) \o <<"/">> \o DATA \o <<"/">> \o value)

\* C18, as stated: for an input that matches the filename pattern and does
\* not start with "/", str_to_path returns <cwd>/data/<input>.
FilenameResolvesUnderData ==
    (ResolverDone /\ pattern_match(resolver.value)
     /\ ~startswith(resolver.value, <<"/">>)) =>
        /\ resolver.pc = "returned"
        /\ resolver.result.ret = UnderData(resolver.value)

\* C18, amended: for an input that matches the filename pattern and starts
\* neither with "/" nor with http, str_to_path returns <cwd>/data/<input>.
FilenameNotHttpResolvesUnderData ==
    (ResolverDone /\ pattern_match(resolver.value)
     /\ ~startswith(resolver.value, <<"/">>)
     /\ ~startswith(resolver.value, HTTP)) =>
        /\ resolver.pc = "returned"
        /\ resolver.result.branch = "else"
        /\ resolver.result.ret = UnderData(resolver.value)

\* the bare filename a.a, resolved
FilenameNotHttpResolvesUnderDataWitness ==
    /\ resolver.pc = "returned"
    /\ resolver.value = <<"a", ".", "a">>
    /\ PathStr(resolver.result.ret) =
          <<"/", "c", "w", "d", "/", "d", "a", "t", "a", "/", "a", ".", "a">>

\* C19: an input that does not start with http, does not match the filename
\* pattern and does not start with "./", "../" or "/" is rejected and no
\* path is made of it; so the last branch of str_to_path returns only for
\* inputs that match the filename pattern.
UnrecognizedInputRejected ==
    ResolverDone =>
        /\ (/\ ~startswith(resolver.value, HTTP)
            /\ ~pattern_match(resolver.value)
            /\ ~startswith(resolver.value, <<".", "/">>)
            /\ ~startswith(resolver.value, <<".", ".", "/">>)
            /\ ~startswith(resolver.value, <<"/">>))
              => /\ resolver.pc = "raised"
                 /\ resolver.result.exc = "ValidationError"
                 /\ resolver.result.branch = "none"
                 /\ resolver.result.ret = NoPath
        /\ resolver.result.branch = "else" => pattern_match(resolver.value)

\* a name with a character outside the class and no extension, rejected
UnrecognizedInputRejectedWitness ==
    /\ resolver.pc = "raised"
    /\ resolver.value = <<"a", ":", "a">>
    /\ resolver.result.exc = "ValidationError"

====
